---- MODULE Spec2Model ----
(***************************************************************************)
(* A model of whisker/api.py: the WhiskerApi event/callback scheduling     *)
(* layer (system event names, delayed sends and calls, line flashing) and  *)
(* of the CallbackHandler registry it drives.                              *)
(*                                                                         *)
(* Strings are TLA+ strings; a command is the tuple of arguments handed to *)
(* the send function.  One action is one call of a public method, run to   *)
(* completion (the API is single-threaded).  Inside a call the instance    *)
(* fields travel in a record c ("the call context"): c.err # "none" means  *)
(* an exception is propagating, and every step is skipped while it does.   *)
(***************************************************************************)
EXTENDS Integers, Sequences, FiniteSets, TLC

VARIABLES
    sysevent_prefix,    \* self.sysevent_prefix
    sysevent_counter,   \* self.sysevent_counter
    callbacks,          \* self.callback_handler: event name -> registrations
    last,               \* the last call: method, arguments, result, log
    minted,             \* history: every name get_new_sysevent returned
    armed,              \* history: event name of every TimerSetEvent that was sent
    regs,               \* history: every registration made, by id
    fired,              \* history: id -> number of times its callback ran
    runs,               \* history: the arguments of every flash_line_pulses run
    toggles,            \* history: every line state a flash step set, in order
    delays,             \* history: the duration of every timer a flash step armed
    steps,              \* history: every flash step, with the run it belongs to
    nwork,              \* calls made so far, a flash of n pulses counting n
    nfail               \* sends that failed so far

vars == <<sysevent_prefix, sysevent_counter, callbacks, last, minted, armed,
          regs, fired, runs, toggles, delays, steps, nwork, nfail>>

-----------------------------------------------------------------------------
(* Bounds of the model *)

MaxWork == 2        \* naming and scheduling calls per behaviour, a flash of n
                    \* pulses counting n; line commands and deliveries are free
MaxFailures == 1    \* failing sends, per behaviour
MaxPulses == 4      \* largest flash count of a single long run

(* A Python value that is turned into text: a string or a number, with    *)
(* the text str() makes of it.                                             *)
Str(s) == [isnum |-> FALSE, i |-> 0, s |-> s]
Num(i) == [isnum |-> TRUE, i |-> i, s |-> ""]
str(x) == IF x.isnum THEN ToString(x.i) ELSE x.s
strs(xs) == [k \in 1 .. Len(xs) |-> str(xs[k])]

(* Inputs *)

Prefixes == {"sys_"}
Delays == {0, 50}
Messages == {"say hi"}
EventArgs == {"", "ev"}       \* '' is the default: no event given
UserCallbacks == {"user_cb"}
ReentrantEvents == {"ev"}     \* names a callback schedules under again
Lines == {"L1"}
OnTimes == {100}
OffTimes == {200}
PulseCounts == (0 - 1) .. MaxPulses
RunLines == {"L1", "L2"}
RunCounts == 1 .. MaxWork
PulseOnTimes == {100, 30}
PulseOffTimes == {200, 30}
Counts == (0 - 1) .. MaxWork
TokenLists == {<<>>, <<Str("a b"), Num(2)>>}
ForeignEvents == {"sys_x", "task"}
NamingPrefixes == {"sys_", "my evt", ""}
NamingTokens == {<<>>, <<Str("a b"), Num(2)>>, <<Str(" x\ty "), Num(0 - 7), Str("")>>}

-----------------------------------------------------------------------------
(* Protocol words (whisker/constants.py) *)

CMD_TIMER_SET_EVENT == "TimerSetEvent"
CMD_LINE_SET_STATE == "LineSetState"
VAL_ON == "ON"
VAL_OFF == "OFF"

-----------------------------------------------------------------------------
(* String helpers: what str.join, str.replace and str.startswith compute *)

RECURSIVE Join(_, _)
Join(parts, sep) ==
    IF parts = <<>> THEN ""
    ELSE IF Len(parts) = 1 THEN parts[1]
    ELSE parts[1] \o sep \o Join(Tail(parts), sep)

RECURSIVE RemoveSpaces(_)
RemoveSpaces(s) ==
    IF Len(s) = 0 THEN ""
    ELSE (IF SubSeq(s, 1, 1) = " " THEN "" ELSE SubSeq(s, 1, 1))
            \o RemoveSpaces(SubSeq(s, 2, Len(s)))

\* mutant: an empty prefix matches nothing
startswith_nonempty(s, p) == p # "" /\ Len(p) <= Len(s) /\ SubSeq(s, 1, Len(p)) = p

startswith(s, p) == Len(p) <= Len(s) /\ SubSeq(s, 1, Len(p)) = p

(* List helpers: n * [a, b] and sum(list) *)

RECURSIVE Repeat(_, _)
Repeat(n, xs) == IF n <= 0 THEN <<>> ELSE xs \o Repeat(n - 1, xs)

RECURSIVE sum(_)
sum(xs) == IF xs = <<>> THEN 0 ELSE Head(xs) + sum(Tail(xs))

-----------------------------------------------------------------------------
(* Entries of a call's log, in the order the call did them *)

Entry(k, cmd, ok, id, ev, cb, args) ==
    [k |-> k, cmd |-> cmd, ok |-> ok, id |-> id, ev |-> ev, cb |-> cb, args |-> args]
SendEntry(cmd, ok) == Entry("send", cmd, ok, 0, "", "", <<>>)
MintEntry(name) == Entry("mint", <<>>, TRUE, 0, name, "", <<>>)
AddEntry(id, ev, cb, args) == Entry("add", <<>>, TRUE, id, ev, cb, args)
CallEntry(id, ev, cb, args) == Entry("call", <<>>, TRUE, id, ev, cb, args)

Sends(log) == SelectSeq(log, LAMBDA e : e.k = "send")
SentOk(log) == SelectSeq(log, LAMBDA e : e.k = "send" /\ e.ok)
Mints(log) == SelectSeq(log, LAMBDA e : e.k = "mint")
Adds(log) == SelectSeq(log, LAMBDA e : e.k = "add")
Calls(log) == SelectSeq(log, LAMBDA e : e.k = "call")

Raise(c, e) == IF c.err # "none" THEN c ELSE [c EXCEPT !.err = e]

-----------------------------------------------------------------------------
(* The command channel: self._immsend.  The send numbered c.failAt  *)
(* within the call fails, and its exception propagates.                    *)

immsend(c, cmd) ==
    IF c.err # "none" THEN c
    ELSE IF Len(Sends(c.log)) + 1 = c.failAt
    THEN [c EXCEPT !.log = Append(@, SendEntry(cmd, FALSE)),
                   !.err = "SendFailed"]
    ELSE [c EXCEPT !.log = Append(@, SendEntry(cmd, TRUE))]

-----------------------------------------------------------------------------
(* CallbackHandler *)

Registration(id, callback, args) == [id |-> id, callback |-> callback, args |-> args]

\* mutant: a new registration goes to the front of the name's sequence
add_single_prepends(c, event, callback, args) ==
    IF c.err # "none" THEN c
    ELSE LET r == Registration(c.nextId, callback, args)
             old == IF event \in DOMAIN c.callbacks
                    THEN c.callbacks[event] ELSE <<>>
         IN [c EXCEPT
               !.callbacks = [e \in DOMAIN c.callbacks \cup {event} |->
                                IF e = event THEN <<r>> \o old
                                ELSE c.callbacks[e]],
               !.log = Append(@, AddEntry(c.nextId, event, callback, args)),
               !.nextId = @ + 1]

add_single(c, event, callback, args) ==
    IF c.err # "none" THEN c
    ELSE LET r == Registration(c.nextId, callback, args)
             old == IF event \in DOMAIN c.callbacks
                    THEN c.callbacks[event] ELSE <<>>
         IN [c EXCEPT
               !.callbacks = [e \in DOMAIN c.callbacks \cup {event} |->
                                IF e = event THEN Append(old, r)
                                ELSE c.callbacks[e]],
               !.log = Append(@, AddEntry(c.nextId, event, callback, args)),
               !.nextId = @ + 1]

-----------------------------------------------------------------------------
(* WhiskerApi *)

\* mutant: the counter is never advanced
get_new_sysevent_no_increment(c, tokens) ==
    IF c.err # "none" THEN c
    ELSE LET n == c.counter
             name == c.prefix \o RemoveSpaces(Join(<<str(Num(n))>> \o strs(tokens), "_"))
         IN [c EXCEPT !.counter = n, !.name = name,
                      !.log = Append(@, MintEntry(name))]

\* mutant: the name is built from the counter as it was, then the counter
\* is advanced
get_new_sysevent_names_then_counts(c, tokens) ==
    IF c.err # "none" THEN c
    ELSE LET n == c.counter
             name == c.prefix \o RemoveSpaces(Join(<<str(Num(n))>> \o strs(tokens), "_"))
         IN [c EXCEPT !.counter = n + 1, !.name = name,
                      !.log = Append(@, MintEntry(name))]

get_new_sysevent(c, tokens) ==
    IF c.err # "none" THEN c
    ELSE LET n == c.counter + 1
             name == c.prefix \o RemoveSpaces(Join(<<str(Num(n))>> \o strs(tokens), "_"))
         IN [c EXCEPT !.counter = n, !.name = name,
                      !.log = Append(@, MintEntry(name))]

\* mutant: duration and reload count change places in the command
timer_set_event_swapped(c, event, duration_ms, reload_count) ==
    immsend(c, <<CMD_TIMER_SET_EVENT, reload_count, duration_ms, event>>)

\* mutant: a failure of the send is caught and dropped
timer_set_event_swallows(c, event, duration_ms, reload_count) ==
    LET c1 == immsend(c, <<CMD_TIMER_SET_EVENT, duration_ms, reload_count, event>>)
    IN IF c.err = "none" THEN [c1 EXCEPT !.err = "none"] ELSE c1

timer_set_event(c, event, duration_ms, reload_count) ==
    immsend(c, <<CMD_TIMER_SET_EVENT, duration_ms, reload_count, event>>)

line_set_state(c, line, on) ==
    immsend(c, <<CMD_LINE_SET_STATE, line, IF on THEN VAL_ON ELSE VAL_OFF>>)

line_on(c, line) == line_set_state(c, line, TRUE)

\* mutant: line_off switches the line on
line_off_sends_on(c, line) == line_set_state(c, line, TRUE)

line_off(c, line) == line_set_state(c, line, FALSE)

\* mutant: an empty event name refused instead of replaced
EventOrNew_rejects_empty(c, event, tokens) ==
    IF event # "" THEN [c EXCEPT !.name = event]
    ELSE Raise(c, "InvalidArgument")

EventOrNew(c, event, tokens) ==
    IF event # "" THEN [c EXCEPT !.name = event]
    ELSE get_new_sysevent(c, tokens)

\* mutant: a zero delay served on the spot, the message sent during the call
send_after_delay_sends_now(c, delay_ms, msg, event) ==
    LET c1 == EventOrNew(c, event, <<Str("send"), Str(msg)>>)
        c2 == timer_set_event(c1, c1.name, delay_ms, 0)
        c3 == add_single(c2, c1.name, "_immsend", <<msg>>)
    IN IF delay_ms = 0 THEN immsend(c3, <<msg>>) ELSE c3

\* mutant: the event name the caller gave is ignored, a name is always minted
send_after_delay_mints_always(c, delay_ms, msg, event) ==
    LET c1 == get_new_sysevent(c, <<Str("send"), Str(msg)>>)
        c2 == timer_set_event(c1, c1.name, delay_ms, 0)
    IN add_single(c2, c1.name, "_immsend", <<msg>>)

\* mutant: the registration is made before the timer is armed
send_after_delay_registers_first(c, delay_ms, msg, event) ==
    LET c1 == EventOrNew(c, event, <<Str("send"), Str(msg)>>)
        c2 == add_single(c1, c1.name, "_immsend", <<msg>>)
    IN timer_set_event(c2, c1.name, delay_ms, 0)

send_after_delay(c, delay_ms, msg, event) ==
    LET c1 == EventOrNew(c, event, <<Str("send"), Str(msg)>>)
        c2 == timer_set_event(c1, c1.name, delay_ms, 0)
    IN add_single(c2, c1.name, "_immsend", <<msg>>)

\* mutants: a zero delay served on the spot, the callback run during the
\* call; the registration made before the timer is armed
call_after_delay_calls_now(c, delay_ms, callback, args, event) ==
    LET c1 == EventOrNew(c, event, <<Str("call")>>)
        c2 == timer_set_event(c1, c1.name, delay_ms, 0)
        c3 == add_single(c2, c1.name, callback, args)
    IN IF delay_ms = 0 /\ c3.err = "none"
       THEN [c3 EXCEPT !.log = Append(@, CallEntry(c2.nextId, c1.name, callback, args))]
       ELSE c3

call_after_delay_registers_first(c, delay_ms, callback, args, event) ==
    LET c1 == EventOrNew(c, event, <<Str("call")>>)
        c2 == add_single(c1, c1.name, callback, args)
        c3 == timer_set_event(c2, c1.name, delay_ms, 0)
    IN c3

\* mutant: scheduling under a name cancels what was registered under it
call_after_delay_replaces(c, delay_ms, callback, args, event) ==
    LET c1 == EventOrNew(c, event, <<Str("call")>>)
        c2 == timer_set_event(c1, c1.name, delay_ms, 0)
        c3 == IF c2.err # "none" THEN c2
              ELSE [c2 EXCEPT !.callbacks =
                      [e \in DOMAIN c2.callbacks \ {c1.name} |-> c2.callbacks[e]]]
    IN add_single(c3, c1.name, callback, args)

\* mutant: a name that already holds a registration is not armed again
call_after_delay_arms_once(c, delay_ms, callback, args, event) ==
    LET c1 == EventOrNew(c, event, <<Str("call")>>)
        c2 == IF c1.name \in DOMAIN c1.callbacks THEN c1
              ELSE timer_set_event(c1, c1.name, delay_ms, 0)
    IN add_single(c2, c1.name, callback, args)

\* mutant: the timer is armed but the callback is never registered
call_after_delay_arms_only(c, delay_ms, callback, args, event) ==
    LET c1 == EventOrNew(c, event, <<Str("call")>>)
    IN timer_set_event(c1, c1.name, delay_ms, 0)

call_after_delay(c, delay_ms, callback, args, event) ==
    LET c1 == EventOrNew(c, event, <<Str("call")>>)
        c2 == timer_set_event(c1, c1.name, delay_ms, 0)
    IN add_single(c2, c1.name, callback, args)

\* mutant: the last step of a run returns before it sets the line
flash_line_ping_pong_unset_last(c, line, on_now, timing_sequence) ==
    IF timing_sequence = <<>> THEN c
    ELSE LET c1 == IF on_now THEN line_on(c, line) ELSE line_off(c, line)
             delay_ms == timing_sequence[1]
             rest == Tail(timing_sequence)
             c2 == get_new_sysevent(c1, <<Str(line), Str(IF on_now THEN "off" ELSE "on")>>)
         IN call_after_delay(c2, delay_ms, "flash_line_ping_pong",
                             <<line, ~on_now, rest>>, c2.name)

\* mutant: a step arms and registers its successor twice
flash_line_ping_pong_double_arm(c, line, on_now, timing_sequence) ==
    LET c1 == IF on_now THEN line_on(c, line) ELSE line_off(c, line)
    IN IF c1.err # "none" \/ timing_sequence = <<>> THEN c1
       ELSE LET delay_ms == timing_sequence[1]
                rest == Tail(timing_sequence)
                c2 == get_new_sysevent(c1, <<Str(line), Str(IF on_now THEN "off" ELSE "on")>>)
                c3 == call_after_delay(c2, delay_ms, "flash_line_ping_pong",
                                       <<line, ~on_now, rest>>, c2.name)
            IN call_after_delay(c3, delay_ms, "flash_line_ping_pong",
                                <<line, ~on_now, rest>>, c2.name)

\* mutant: a step takes two durations off the sequence instead of one
flash_line_ping_pong_skips_a_duration(c, line, on_now, timing_sequence) ==
    LET c1 == IF on_now THEN line_on(c, line) ELSE line_off(c, line)
    IN IF c1.err # "none" \/ timing_sequence = <<>> THEN c1
       ELSE LET delay_ms == timing_sequence[1]
                rest == IF Len(timing_sequence) >= 2 THEN Tail(Tail(timing_sequence))
                        ELSE <<>>
                c2 == get_new_sysevent(c1, <<Str(line), Str(IF on_now THEN "off" ELSE "on")>>)
            IN call_after_delay(c2, delay_ms, "flash_line_ping_pong",
                                <<line, ~on_now, rest>>, c2.name)

\* mutant: with no duration left, the step still arms a timer, of delay 0
flash_line_ping_pong_arms_on_empty(c, line, on_now, timing_sequence) ==
    LET c1 == IF on_now THEN line_on(c, line) ELSE line_off(c, line)
    IN IF c1.err # "none" THEN c1
       ELSE LET delay_ms == IF timing_sequence = <<>> THEN 0 ELSE timing_sequence[1]
                rest == IF timing_sequence = <<>> THEN <<>> ELSE Tail(timing_sequence)
                c2 == get_new_sysevent(c1, <<Str(line), Str(IF on_now THEN "off" ELSE "on")>>)
            IN call_after_delay(c2, delay_ms, "flash_line_ping_pong",
                                <<line, ~on_now, rest>>, c2.name)

\* mutant: the event name is tagged with the polarity the step itself set
flash_line_ping_pong_tags_current(c, line, on_now, timing_sequence) ==
    LET c1 == IF on_now THEN line_on(c, line) ELSE line_off(c, line)
    IN IF c1.err # "none" \/ timing_sequence = <<>> THEN c1
       ELSE LET delay_ms == timing_sequence[1]
                rest == Tail(timing_sequence)
                c2 == get_new_sysevent(c1, <<Str(line), Str(IF on_now THEN "on" ELSE "off")>>)
            IN call_after_delay(c2, delay_ms, "flash_line_ping_pong",
                                <<line, ~on_now, rest>>, c2.name)

\* mutant: the next step is given the polarity of this one
flash_line_ping_pong_keeps_polarity(c, line, on_now, timing_sequence) ==
    LET c1 == IF on_now THEN line_on(c, line) ELSE line_off(c, line)
    IN IF c1.err # "none" \/ timing_sequence = <<>> THEN c1
       ELSE LET delay_ms == timing_sequence[1]
                rest == Tail(timing_sequence)
                c2 == get_new_sysevent(c1, <<Str(line), Str(IF on_now THEN "off" ELSE "on")>>)
            IN call_after_delay(c2, delay_ms, "flash_line_ping_pong",
                                <<line, on_now, rest>>, c2.name)

\* mutant: after arming the next step, the step does the next step's line
\* command itself
flash_line_ping_pong_double_step(c, line, on_now, timing_sequence) ==
    LET c1 == IF on_now THEN line_on(c, line) ELSE line_off(c, line)
    IN IF c1.err # "none" \/ timing_sequence = <<>> THEN c1
       ELSE LET delay_ms == timing_sequence[1]
                rest == Tail(timing_sequence)
                c2 == get_new_sysevent(c1, <<Str(line), Str(IF on_now THEN "off" ELSE "on")>>)
                c3 == call_after_delay(c2, delay_ms, "flash_line_ping_pong",
                                       <<line, ~on_now, rest>>, c2.name)
            IN line_set_state(c3, line, ~on_now)

\* mutant: the minted name is not handed to call_after_delay, which mints
\* a name of its own
flash_line_ping_pong_drops_event(c, line, on_now, timing_sequence) ==
    LET c1 == IF on_now THEN line_on(c, line) ELSE line_off(c, line)
    IN IF c1.err # "none" \/ timing_sequence = <<>> THEN c1
       ELSE LET delay_ms == timing_sequence[1]
                rest == Tail(timing_sequence)
                c2 == get_new_sysevent(c1, <<Str(line), Str(IF on_now THEN "off" ELSE "on")>>)
            IN call_after_delay(c2, delay_ms, "flash_line_ping_pong",
                                <<line, ~on_now, rest>>, "")

flash_line_ping_pong(c, line, on_now, timing_sequence) ==
    LET c1 == IF on_now THEN line_on(c, line) ELSE line_off(c, line)
    IN IF c1.err # "none" \/ timing_sequence = <<>> THEN c1
       ELSE LET delay_ms == timing_sequence[1]
                rest == Tail(timing_sequence)
                c2 == get_new_sysevent(c1, <<Str(line), Str(IF on_now THEN "off" ELSE "on")>>)
            IN call_after_delay(c2, delay_ms, "flash_line_ping_pong",
                                <<line, ~on_now, rest>>, c2.name)

\* mutant: one on/off pair too many
TimingSequence_extra_pair(count, on_ms, off_ms, on_at_rest) ==
    IF on_at_rest
    THEN <<off_ms>> \o Repeat(count, <<on_ms, off_ms>>)
    ELSE <<on_ms>> \o Repeat(count, <<off_ms, on_ms>>)

\* mutant: the ON-at-rest run takes the durations of the OFF-at-rest run
TimingSequence_same_durations(count, on_ms, off_ms, on_at_rest) ==
    <<on_ms>> \o Repeat(count - 1, <<off_ms, on_ms>>)

TimingSequence(count, on_ms, off_ms, on_at_rest) ==
    IF on_at_rest
    THEN <<off_ms>> \o Repeat(count - 1, <<on_ms, off_ms>>)
    ELSE <<on_ms>> \o Repeat(count - 1, <<off_ms, on_ms>>)

\* mutant: the total counts a gap after the last pulse
flash_line_pulses_trailing_gap(c, line, count, on_ms, off_ms, on_at_rest) ==
    IF ~(count > 0) THEN Raise(c, "AssertionError")
    ELSE LET on_now == ~on_at_rest
             timing_sequence == TimingSequence(count, on_ms, off_ms, on_at_rest)
             total_duration_ms == count * (on_ms + off_ms)
             c1 == flash_line_ping_pong(c, line, on_now, timing_sequence)
         IN [c1 EXCEPT !.ret = <<total_duration_ms>>]

\* mutant: the count is not checked
flash_line_pulses_unchecked(c, line, count, on_ms, off_ms, on_at_rest) ==
    LET on_now == ~on_at_rest
        timing_sequence == TimingSequence(count, on_ms, off_ms, on_at_rest)
        total_duration_ms == sum(timing_sequence)
        c1 == flash_line_ping_pong(c, line, on_now, timing_sequence)
    IN [c1 EXCEPT !.ret = <<total_duration_ms>>]

\* mutant: the run starts in the rest state instead of the opposite one
flash_line_pulses_wrong_polarity(c, line, count, on_ms, off_ms, on_at_rest) ==
    IF ~(count > 0) THEN Raise(c, "AssertionError")
    ELSE LET on_now == on_at_rest
             timing_sequence == TimingSequence(count, on_ms, off_ms, on_at_rest)
             total_duration_ms == sum(timing_sequence)
             c1 == flash_line_ping_pong(c, line, on_now, timing_sequence)
         IN [c1 EXCEPT !.ret = <<total_duration_ms>>]

\* mutant: the run is started with the sequence less its first duration
flash_line_pulses_skips_first(c, line, count, on_ms, off_ms, on_at_rest) ==
    IF ~(count > 0) THEN Raise(c, "AssertionError")
    ELSE LET on_now == ~on_at_rest
             timing_sequence == TimingSequence(count, on_ms, off_ms, on_at_rest)
             total_duration_ms == sum(timing_sequence)
             c1 == flash_line_ping_pong(c, line, on_now, Tail(timing_sequence))
         IN [c1 EXCEPT !.ret = <<total_duration_ms>>]

flash_line_pulses(c, line, count, on_ms, off_ms, on_at_rest) ==
    IF ~(count > 0) THEN Raise(c, "AssertionError")
    ELSE LET on_now == ~on_at_rest
             timing_sequence == TimingSequence(count, on_ms, off_ms, on_at_rest)
             total_duration_ms == sum(timing_sequence)
             c1 == flash_line_ping_pong(c, line, on_now, timing_sequence)
         IN [c1 EXCEPT !.ret = <<total_duration_ms>>]

-----------------------------------------------------------------------------
(* CallbackHandler.process_event: run the callbacks held under the event,  *)
(* in registration order, then drop them; the number run is returned.      *)

call(c, event, r) ==
    IF c.err # "none" THEN c
    ELSE LET c1 == [c EXCEPT !.log = Append(@, CallEntry(r.id, event, r.callback, r.args))]
         IN CASE r.callback = "_immsend" -> immsend(c1, r.args)
              [] r.callback = "flash_line_ping_pong" ->
                    flash_line_ping_pong(c1, r.args[1], r.args[2], r.args[3])
              [] r.callback = "again_cb" ->
                    call_after_delay(c1, 0, "user_cb", <<>>, r.args[1])
              [] OTHER -> c1

RECURSIVE call_each(_, _, _)
call_each(c, event, rs) ==
    IF rs = <<>> THEN c
    ELSE call_each(call(c, event, Head(rs)), event, Tail(rs))

\* mutant: the registrations stay in the registry after they ran
process_event_keeps(c, event) ==
    LET held == IF event \in DOMAIN c.callbacks THEN c.callbacks[event] ELSE <<>>
        c1 == call_each(c, event, held)
    IN IF c1.err # "none" THEN c1 ELSE [c1 EXCEPT !.n = Len(held)]

\* mutant: after the callbacks ran, everything under the name is dropped
process_event_drops_name(c, event) ==
    LET held == IF event \in DOMAIN c.callbacks THEN c.callbacks[event] ELSE <<>>
        c1 == call_each(c, event, held)
    IN IF c1.err # "none" THEN c1
       ELSE [c1 EXCEPT
               !.callbacks = [e \in DOMAIN c1.callbacks \ {event} |-> c1.callbacks[e]],
               !.n = Len(held)]

\* mutant: the name stays in the registry, with nothing under it
process_event_leaves_name(c, event) ==
    LET held == IF event \in DOMAIN c.callbacks THEN c.callbacks[event] ELSE <<>>
        c1 == call_each(c, event, held)
        now == IF event \in DOMAIN c1.callbacks THEN c1.callbacks[event] ELSE <<>>
        left == SubSeq(now, Len(held) + 1, Len(now))
    IN IF c1.err # "none" THEN c1
       ELSE [c1 EXCEPT
               !.callbacks = [e \in DOMAIN c1.callbacks |->
                                IF e = event THEN left ELSE c1.callbacks[e]],
               !.n = Len(held)]

process_event(c, event) ==
    LET held == IF event \in DOMAIN c.callbacks THEN c.callbacks[event] ELSE <<>>
        c1 == call_each(c, event, held)
        now == IF event \in DOMAIN c1.callbacks THEN c1.callbacks[event] ELSE <<>>
        left == SubSeq(now, Len(held) + 1, Len(now))
    IN IF c1.err # "none" THEN c1
       ELSE [c1 EXCEPT
               !.callbacks = [e \in (IF left = <<>> THEN DOMAIN c1.callbacks \ {event}
                                     ELSE DOMAIN c1.callbacks) |->
                                IF e = event THEN left ELSE c1.callbacks[e]],
               !.n = Len(held)]

\* mutants: the prefix test forgotten; an unmatched event treated as an error
process_backend_event_no_prefix(c, event) ==
    LET c1 == process_event(c, event)
    IN IF c1.err # "none" THEN c1 ELSE [c1 EXCEPT !.ret = <<c1.n > 0>>]

process_backend_event_unmatched_raises(c, event) ==
    LET c1 == process_event(c, event)
    IN IF c1.err # "none" THEN c1
       ELSE IF c1.n = 0 THEN Raise(c1, "KeyError")
       ELSE [c1 EXCEPT !.ret = <<TRUE>>]

process_backend_event(c, event) ==
    LET c1 == process_event(c, event)
        n_called == c1.n
    IN IF c1.err # "none" THEN c1
       ELSE [c1 EXCEPT !.ret = <<n_called > 0 \/ startswith(event, c1.prefix)>>]

-----------------------------------------------------------------------------
(* One call of a public method *)

Begin(failAt) ==
    [prefix |-> sysevent_prefix, counter |-> sysevent_counter,
     callbacks |-> callbacks, nextId |-> Len(regs) + 1, failAt |-> failAt,
     log |-> <<>>, err |-> "none", name |-> "", n |-> 0, ret |-> <<>>]

NewRegs(c) ==
    [i \in 1 .. Len(Adds(c.log)) |->
        LET a == Adds(c.log)[i]
        IN [event |-> a.ev, callback |-> a.cb, args |-> a.args]]

IsLineSet(e) == e.k = "send" /\ e.cmd[1] = CMD_LINE_SET_STATE /\ Len(e.cmd) = 3

LineSets(log) ==
    LET ls == SelectSeq(log, LAMBDA e : IsLineSet(e) /\ e.ok)
    IN [i \in 1 .. Len(ls) |-> [line |-> ls[i].cmd[2], val |-> ls[i].cmd[3]]]

IsTimerSet(e) == e.k = "send" /\ e.cmd[1] = CMD_TIMER_SET_EVENT /\ Len(e.cmd) = 4

Armed(log) ==
    LET ts == SelectSeq(log, LAMBDA e : IsTimerSet(e) /\ e.ok)
    IN [i \in 1 .. Len(ts) |-> ts[i].cmd[4]]

\* the durations of the timers a call armed for a next flash step
FlashDelays(log) ==
    LET ts == SelectSeq(log, LAMBDA e :
                  /\ IsTimerSet(e) /\ e.ok
                  /\ \E j \in 1 .. Len(log) :
                        /\ log[j].k = "add" /\ log[j].ev = e.cmd[4]
                        /\ log[j].cb = "flash_line_ping_pong")
    IN [i \in 1 .. Len(ts) |-> ts[i].cmd[2]]

\* the run that made the registration: the run of the flash step that added it
RunOf(id) ==
    IF \E k \in 1 .. Len(steps) : steps[k].next = id
    THEN steps[CHOOSE k \in 1 .. Len(steps) : steps[k].next = id].run
    ELSE 0

(* The flash steps a call ran, in order.  A step is the flash_line_ping_pong *)
(* call that flash_line_pulses makes (it belongs to the run just started,    *)
(* numbered run) or one a delivery invoked (it belongs to the run that made  *)
(* its registration); the step is recorded with the line command it sent,    *)
(* the duration of the timer it armed (none: -1) and the registration it     *)
(* added (none: 0).                                                          *)
FlashSteps(op, log, run) ==
    LET starts == (IF op = "flash_line_pulses" /\ log # <<>> THEN {0} ELSE {})
                  \cup {j \in 1 .. Len(log) :
                          log[j].k = "call" /\ log[j].cb = "flash_line_ping_pong"}
        EndOf(s) == IF \E t \in starts : t > s
                    THEN (CHOOSE t \in starts : t > s /\ \A u \in starts : u > s => t <= u) - 1
                    ELSE Len(log)
        StepAt(s) ==
            LET seg == SubSeq(log, s + 1, EndOf(s))
                ls == SelectSeq(seg, IsLineSet)
                ts == SelectSeq(seg, LAMBDA e : IsTimerSet(e) /\ e.ok)
                as == Adds(seg)
            IN [run |-> IF s = 0 THEN run ELSE RunOf(log[s].id),
                by |-> IF s = 0 THEN 0 ELSE log[s].id,
                line |-> IF ls = <<>> THEN "" ELSE ls[1].cmd[2],
                val |-> IF ls = <<>> THEN "" ELSE ls[1].cmd[3],
                sent |-> ls # <<>> /\ ls[1].ok,
                dur |-> IF ts = <<>> THEN 0 - 1 ELSE ts[1].cmd[2],
                next |-> IF as = <<>> THEN 0 ELSE as[1].id]
        order == SelectSeq([j \in 1 .. Len(log) + 1 |-> j - 1], LAMBDA s : s \in starts)
    IN [i \in 1 .. Len(order) |-> StepAt(order[i])]

Commit(c, op, args, ret) ==
    /\ sysevent_counter' = c.counter
    /\ callbacks' = c.callbacks
    /\ last' = [op |-> op, args |-> args, err |-> c.err, log |-> c.log,
                n |-> c.n, ret |-> IF c.err = "none" THEN ret ELSE <<>>]
    /\ minted' = minted \o [i \in 1 .. Len(Mints(c.log)) |-> Mints(c.log)[i].ev]
    /\ armed' = armed \o Armed(c.log)
    /\ regs' = regs \o NewRegs(c)
    /\ fired' = [i \in 1 .. Len(regs') |->
                    (IF i <= Len(fired) THEN fired[i] ELSE 0)
                    + Len(SelectSeq(c.log, LAMBDA e : e.k = "call" /\ e.id = i))]
    /\ runs' = IF op = "flash_line_pulses" /\ c.log # <<>>
                THEN Append(runs, [line |-> args[1], count |-> args[2],
                                   on_ms |-> args[3], off_ms |-> args[4],
                                   on_at_rest |-> args[5],
                                   total |-> IF c.err = "none" THEN ret ELSE <<>>])
                ELSE runs
    /\ toggles' = IF op \in {"flash_line_pulses", "process_backend_event"}
                   THEN toggles \o LineSets(c.log)
                   ELSE toggles
    /\ delays' = delays \o FlashDelays(c.log)
    /\ steps' = steps \o FlashSteps(op, c.log, Len(runs'))
    /\ nfail' = IF c.err = "SendFailed" THEN nfail + 1 ELSE nfail
    /\ UNCHANGED sysevent_prefix

(* Which send of a call fails, if any: none (0), or any one of the sends   *)
(* the call makes when none fails.                                         *)
FailChoices(c) == IF nfail < MaxFailures THEN 0 .. Len(Sends(c.log)) ELSE {0}

GetNewSysevent ==
    /\ nwork < MaxWork
    /\ \E tokens \in TokenLists :
          LET c == get_new_sysevent(Begin(0), tokens)
          IN Commit(c, "get_new_sysevent", <<tokens>>, <<c.name>>)
    /\ nwork' = nwork + 1

(* A naming call with tokens of every kind: text with spaces and a tab,   *)
(* numbers, the empty text                                                *)
MintName ==
    /\ nwork < MaxWork
    /\ \E tokens \in NamingTokens :
          LET c == get_new_sysevent(Begin(0), tokens)
          IN Commit(c, "get_new_sysevent", <<tokens>>, <<c.name>>)
    /\ nwork' = nwork + 1

SendAfterDelay ==
    /\ nwork < MaxWork
    /\ \E delay_ms \in Delays, msg \in Messages, event \in EventArgs :
          \E f \in FailChoices(send_after_delay(Begin(0), delay_ms, msg, event)) :
             LET c == send_after_delay(Begin(f), delay_ms, msg, event)
             IN Commit(c, "send_after_delay", <<delay_ms, msg, event>>, <<>>)
    /\ nwork' = nwork + 1

CallAfterDelay ==
    /\ nwork < MaxWork
    /\ \E delay_ms \in Delays, cb \in UserCallbacks, event \in EventArgs :
          \E f \in FailChoices(call_after_delay(Begin(0), delay_ms, cb, <<>>, event)) :
             LET c == call_after_delay(Begin(f), delay_ms, cb, <<>>, event)
             IN Commit(c, "call_after_delay", <<delay_ms, cb, event>>, <<>>)
    /\ nwork' = nwork + 1

(* A call that schedules a callback which, when it runs, schedules a call *)
(* under the event name it was given: the name of its own event.          *)
ScheduleReentrant ==
    /\ nwork < MaxWork
    /\ \E delay_ms \in Delays, event \in ReentrantEvents :
          LET c == call_after_delay(Begin(0), delay_ms, "again_cb", <<event>>, event)
          IN Commit(c, "call_after_delay", <<delay_ms, "again_cb", event>>, <<>>)
    /\ nwork' = nwork + 1

Cost(count) == IF count > 1 THEN count ELSE 1

FlashCall(line, count, on_ms, off_ms, on_at_rest) ==
    \E f \in FailChoices(flash_line_pulses(Begin(0), line, count, on_ms, off_ms,
                                          on_at_rest)) :
        LET c == flash_line_pulses(Begin(f), line, count, on_ms, off_ms, on_at_rest)
        IN Commit(c, "flash_line_pulses",
                  <<line, count, on_ms, off_ms, on_at_rest>>, c.ret)

FlashLinePulses ==
    \E line \in Lines, count \in Counts, on_ms \in OnTimes, off_ms \in OffTimes,
       on_at_rest \in BOOLEAN :
        /\ nwork + Cost(count) <= MaxWork
        /\ FlashCall(line, count, on_ms, off_ms, on_at_rest)
        /\ nwork' = nwork + Cost(count)

(* A single flash call of up to MaxPulses pulses, on an idle instance *)
FlashLineRun ==
    \E line \in Lines, count \in PulseCounts, on_ms \in PulseOnTimes,
       off_ms \in PulseOffTimes, on_at_rest \in BOOLEAN :
        /\ nwork = 0
        /\ FlashCall(line, count, on_ms, off_ms, on_at_rest)
        /\ nwork' = nwork + Cost(count)

(* One more flash call while earlier runs may still be under way, on the   *)
(* line of an earlier run or on another                                    *)
FlashLineAgain ==
    \E line \in RunLines, count \in RunCounts, on_ms \in OnTimes,
       off_ms \in OffTimes, on_at_rest \in BOOLEAN :
        /\ nwork + Cost(count) <= MaxWork
        /\ FlashCall(line, count, on_ms, off_ms, on_at_rest)
        /\ nwork' = nwork + Cost(count)

TimerSetEvent ==
    /\ nwork < MaxWork
    /\ \E event \in ReentrantEvents, duration_ms \in Delays, reload_count \in {0, 1} :
          \E f \in FailChoices(timer_set_event(Begin(0), event, duration_ms,
                                               reload_count)) :
             LET c == timer_set_event(Begin(f), event, duration_ms, reload_count)
             IN Commit(c, "timer_set_event", <<event, duration_ms, reload_count>>, <<>>)
    /\ nwork' = nwork + 1

LineSetState ==
    /\ \E line \in Lines, on \in BOOLEAN :
          \E f \in FailChoices(line_set_state(Begin(0), line, on)) :
             LET c == line_set_state(Begin(f), line, on)
             IN Commit(c, "line_set_state", <<line, on>>, <<>>)
    /\ UNCHANGED nwork

LineOn ==
    /\ \E line \in Lines :
          \E f \in FailChoices(line_on(Begin(0), line)) :
             LET c == line_on(Begin(f), line)
             IN Commit(c, "line_on", <<line>>, <<>>)
    /\ UNCHANGED nwork

LineOff ==
    /\ \E line \in Lines :
          \E f \in FailChoices(line_off(Begin(0), line)) :
             LET c == line_off(Begin(f), line)
             IN Commit(c, "line_off", <<line>>, <<>>)
    /\ UNCHANGED nwork

(* The dispatcher delivers an event the server reported: a name some call  *)
(* registered or armed, or a name of the task's own.                       *)
Deliverable ==
    DOMAIN callbacks \cup {armed[i] : i \in 1 .. Len(armed)} \cup ForeignEvents

DeliverEvent(event) ==
    /\ \E f \in FailChoices(process_backend_event(Begin(0), event)) :
          LET c == process_backend_event(Begin(f), event)
          IN Commit(c, "process_backend_event", <<event>>, c.ret)
    /\ UNCHANGED nwork

ProcessBackendEvent == \E event \in Deliverable : DeliverEvent(event)

Init ==
    /\ sysevent_prefix \in Prefixes
    /\ sysevent_counter = 0
    /\ callbacks = <<>>
    /\ last = [op |-> "__init__", args |-> <<>>, err |-> "none", log |-> <<>>,
               n |-> 0, ret |-> <<>>]
    /\ minted = <<>>
    /\ armed = <<>>
    /\ regs = <<>>
    /\ fired = <<>>
    /\ runs = <<>>
    /\ toggles = <<>>
    /\ delays = <<>>
    /\ steps = <<>>
    /\ nwork = 0
    /\ nfail = 0

Next ==
    \/ GetNewSysevent
    \/ SendAfterDelay
    \/ CallAfterDelay
    \/ FlashLinePulses
    \/ LineSetState
    \/ LineOn
    \/ LineOff
    \/ ProcessBackendEvent

Spec == Init /\ [][Next]_vars

(* The same calls over a channel whose sends never fail *)
NoSendFails == last'.err # "SendFailed"

NextReliable ==
    \/ GetNewSysevent /\ NoSendFails
    \/ SendAfterDelay /\ NoSendFails
    \/ CallAfterDelay /\ NoSendFails
    \/ FlashLinePulses /\ NoSendFails
    \/ LineSetState /\ NoSendFails
    \/ LineOn /\ NoSendFails
    \/ LineOff /\ NoSendFails
    \/ ProcessBackendEvent /\ NoSendFails

SpecReliable == Init /\ [][NextReliable]_vars

(* One long flash run and the delivery of its events *)
NextFlash ==
    \/ FlashLineRun
    \/ ProcessBackendEvent

SpecFlash == Init /\ [][NextFlash]_vars

(* One long flash run over a channel whose sends never fail, with a server *)
(* that delivers the event of every timer armed: a name that holds a       *)
(* registration is eventually delivered.  TimersFire is the weak fairness  *)
(* of DeliverArmed, WF_vars(DeliverArmed), written out: the action is      *)
(* enabled exactly when the registry holds a name (a held name can always  *)
(* be delivered, and its delivery changes fired).                          *)
DeliverArmed ==
    \E event \in DOMAIN callbacks : DeliverEvent(event) /\ NoSendFails

NextFlashLive ==
    \/ FlashLineRun /\ NoSendFails
    \/ ProcessBackendEvent /\ NoSendFails

TimersFire == []<>(DOMAIN callbacks = {}) \/ []<><<DeliverArmed>>_vars

SpecFlashLive == Init /\ [][NextFlashLive]_vars /\ TimersFire

(* Scheduled calls, one of which schedules again under its own event name, *)
(* over a channel whose sends never fail                                   *)
NextReentrant ==
    \/ ScheduleReentrant
    \/ CallAfterDelay /\ NoSendFails
    \/ SendAfterDelay /\ NoSendFails
    \/ ProcessBackendEvent /\ NoSendFails

SpecReentrant == Init /\ [][NextReentrant]_vars

(* Naming and scheduling on an instance made with a prefix of the caller's *)
InitNaming ==
    /\ sysevent_prefix \in NamingPrefixes
    /\ sysevent_counter = 0
    /\ callbacks = <<>>
    /\ last = [op |-> "__init__", args |-> <<>>, err |-> "none", log |-> <<>>,
               n |-> 0, ret |-> <<>>]
    /\ minted = <<>>
    /\ armed = <<>>
    /\ regs = <<>>
    /\ fired = <<>>
    /\ runs = <<>>
    /\ toggles = <<>>
    /\ delays = <<>>
    /\ steps = <<>>
    /\ nwork = 0
    /\ nfail = 0

NextNaming ==
    \/ MintName
    \/ SendAfterDelay
    \/ CallAfterDelay
    \/ ProcessBackendEvent

SpecNaming == InitNaming /\ [][NextNaming]_vars

(* The calls that issue commands, timer_set_event called directly among    *)
(* them, over a channel whose sends may fail                               *)
NextChannel ==
    \/ TimerSetEvent
    \/ LineSetState
    \/ SendAfterDelay
    \/ CallAfterDelay
    \/ FlashLinePulses
    \/ ProcessBackendEvent

SpecChannel == Init /\ [][NextChannel]_vars

(* Several flash runs under way at once, their events delivered in any     *)
(* order, over a channel whose sends never fail                            *)
NextRuns ==
    \/ FlashLineAgain /\ NoSendFails
    \/ ProcessBackendEvent /\ NoSendFails

SpecRuns == Init /\ [][NextRuns]_vars

-----------------------------------------------------------------------------
(* Vocabulary of the properties *)

\* the event name carries the configured system-event prefix, letter by letter
CarriesPrefix(e) ==
    /\ Len(e) >= Len(sysevent_prefix)
    /\ \A i \in 1 .. Len(sysevent_prefix) :
          SubSeq(e, i, i) = SubSeq(sysevent_prefix, i, i)

Returned(op) == last.op = op /\ last.err = "none"
Delivered == Returned("process_backend_event")
DeliveredEvent == last.args[1]

\* the step just taken was a call of op (every step is one call)
Step(op) == last'.op = op

FiredBefore(i) == IF i <= Len(fired) THEN fired[i] ELSE 0

-----------------------------------------------------------------------------
(* C1: process_backend_event(e) returns true exactly when the dispatch of  *)
(* e ran at least one registered callback or e starts with the system      *)
(* event prefix; for an unprefixed name with no registration it is false.  *)
C1_ConsumedIff ==
    Delivered =>
        (last.ret[1] <=> (Len(Calls(last.log)) > 0 \/ CarriesPrefix(DeliveredEvent)))

C1_Witness ==
    /\ Delivered
    /\ ~CarriesPrefix(DeliveredEvent)
    /\ Len(Calls(last.log)) > 0
    /\ last.ret = <<TRUE>>

(* C2: delivering a prefixed name that has no registration returns true,   *)
(* raises nothing, sends nothing, and leaves registry and counter alone.   *)
C2_SilentDrop ==
    [][(/\ Step("process_backend_event")
        /\ last'.args[1] \notin DOMAIN callbacks
        /\ CarriesPrefix(last'.args[1]))
       => /\ last'.err = "none"
          /\ last'.ret = <<TRUE>>
          /\ Sends(last'.log) = <<>>
          /\ callbacks' = callbacks
          /\ sysevent_counter' = sysevent_counter]_vars

C2_Witness ==
    /\ Delivered
    /\ CarriesPrefix(DeliveredEvent)
    /\ Calls(last.log) = <<>>
    /\ last.ret = <<TRUE>>
    /\ DOMAIN callbacks # {}

(* C3: a callback scheduled with call_after_delay runs only in a delivery  *)
(* of its own event name through process_backend_event: not in the         *)
(* call_after_delay call (whatever the delay, 0 included), not in any      *)
(* other call, not in the delivery of another name.                        *)
ViaCallAfterDelay(r) == r.callback # "_immsend"

C3_NotBeforeEvent ==
    [][\A i \in 1 .. Len(regs') :
          (ViaCallAfterDelay(regs'[i]) /\ fired'[i] > FiredBefore(i))
          => /\ Step("process_backend_event")
             /\ last'.args[1] = regs'[i].event
             /\ i <= Len(regs)]_vars

C3_Witness ==
    /\ Delivered
    /\ \E j \in 1 .. Len(last.log) :
          /\ last.log[j].k = "call"
          /\ last.log[j].cb \in UserCallbacks
          /\ fired[last.log[j].id] = 1

(* C4: over a channel that does not fail, the message of a send_after_delay*)
(* call is sent exactly once, in the first delivery of its event after the *)
(* call, and at no other moment; the send_after_delay call itself sends    *)
(* the TimerSetEvent that arms the timer and nothing else.                 *)
MessageSends(log, i) ==
    {j \in 1 .. Len(log) - 1 :
        /\ log[j].k = "call" /\ log[j].id = i
        /\ log[j + 1].k = "send" /\ log[j + 1].ok /\ log[j + 1].cmd = log[j].args}

C4_SentOnceOnEvent ==
    [][/\ \A i \in 1 .. Len(regs') :
             regs'[i].callback = "_immsend" =>
                LET first == /\ Step("process_backend_event")
                             /\ last'.args[1] = regs'[i].event
                             /\ i <= Len(regs)
                             /\ FiredBefore(i) = 0
                IN /\ fired'[i] = (IF first THEN 1 ELSE FiredBefore(i))
                   /\ Cardinality(MessageSends(last'.log, i)) = fired'[i] - FiredBefore(i)
       /\ Step("send_after_delay") =>
             /\ Len(Sends(last'.log)) = 1
             /\ Sends(last'.log)[1].cmd[1] = CMD_TIMER_SET_EVENT
             /\ Sends(last'.log)[1].cmd[2] = last'.args[1]]_vars

C4_Witness ==
    /\ Delivered
    /\ \E i \in 1 .. Len(regs) :
          /\ regs[i].callback = "_immsend"
          /\ fired[i] = 1
          /\ regs[i].event = DeliveredEvent
          /\ MessageSends(last.log, i) = {}
          /\ Calls(last.log) = <<>>

(* C5: with sends that may fail, every pending registration was made right *)
(* after a TimerSetEvent for its event name went out: the registrations    *)
(* ever made and the timers ever armed pair off one to one, in order; a    *)
(* scheduling call whose TimerSetEvent fails raises and registers nothing. *)
SchedulingOps == {"send_after_delay", "call_after_delay"}

C5_NoOrphanRegistration ==
    /\ \A e \in DOMAIN callbacks : \A j \in 1 .. Len(callbacks[e]) :
          LET id == callbacks[e][j].id
          IN id \in 1 .. Len(armed) /\ armed[id] = e /\ regs[id].event = e
    /\ Len(regs) = Len(armed)
    /\ (last.op \in SchedulingOps /\ \E j \in 1 .. Len(last.log) :
            IsTimerSet(last.log[j]) /\ ~last.log[j].ok)
       => last.err = "SendFailed" /\ Adds(last.log) = <<>>

C5_Witness ==
    /\ last.op \in SchedulingOps
    /\ last.err = "SendFailed"
    /\ \E j \in 1 .. Len(last.log) : IsTimerSet(last.log[j]) /\ ~last.log[j].ok
    /\ DOMAIN callbacks # {}

(* C6, as claimed: a scheduling call given an empty event name fails with  *)
(* InvalidArgument before any command is sent, and registers nothing.      *)
C6_EmptyEventRejected ==
    (last.op \in SchedulingOps /\ last.args[3] = "")
    => /\ last.err = "InvalidArgument"
       /\ Sends(last.log) = <<>>
       /\ Adds(last.log) = <<>>

(* C6, amended: an empty event name is the default and means "none given": *)
(* the call never fails with InvalidArgument; it first mints a fresh       *)
(* system event name, sends TimerSetEvent for that name and, when the send *)
(* went out, registers the callback under it.                              *)
C6_EmptyEventMints ==
    (last.op \in SchedulingOps /\ last.args[3] = "")
    => /\ last.err \in {"none", "SendFailed"}
       /\ Len(last.log) >= 2
       /\ last.log[1].k = "mint"
       /\ Len(Mints(last.log)) = 1
       /\ last.log[1].ev # "" /\ CarriesPrefix(last.log[1].ev)
       /\ IsTimerSet(last.log[2]) /\ last.log[2].cmd[4] = last.log[1].ev
       /\ last.err = "none"
          => /\ Len(Adds(last.log)) = 1
             /\ Adds(last.log)[1].ev = last.log[1].ev
             /\ last.log[1].ev \in DOMAIN callbacks

C6_Witness ==
    /\ last.op \in SchedulingOps
    /\ last.args[3] = ""
    /\ last.err = "none"
    /\ Len(Adds(last.log)) = 1

(* C7: flash_line_pulses with count <= 0 fails before anything is done: no *)
(* command is sent, no name is minted, no registration is added.           *)
C7_NonPositiveCountFails ==
    [][(Step("flash_line_pulses") /\ last'.args[2] <= 0)
       => /\ last'.err = "AssertionError"
          /\ last'.log = <<>>
          /\ sysevent_counter' = sysevent_counter
          /\ minted' = minted
          /\ callbacks' = callbacks
          /\ armed' = armed]_vars

C7_Witness ==
    /\ last.op = "flash_line_pulses"
    /\ last.args[2] <= 0
    /\ last.err = "AssertionError"
    /\ DOMAIN callbacks # {}

(* C8: over any sequence of calls, failing ones included, the name counter *)
(* never goes down (it advances by one per name minted), the names minted  *)
(* are pairwise distinct, and every one begins with the prefix.            *)
C8_NamesUniqueCounterMonotone ==
    [][/\ sysevent_counter' >= sysevent_counter
       /\ sysevent_counter' - sysevent_counter = Len(minted') - Len(minted)
       /\ \A i, j \in 1 .. Len(minted') : i # j => minted'[i] # minted'[j]
       /\ \A i \in 1 .. Len(minted') : CarriesPrefix(minted'[i])]_vars

C8_Witness ==
    /\ Len(minted) >= 2
    /\ last.err = "SendFailed"
    /\ Mints(last.log) # <<>>
    /\ \E i \in 1 .. Len(minted) : minted[i] = sysevent_prefix \o "1_ab_2"

(* The duration sequence a returned flash_line_pulses call started with:  *)
(* the delay of the timer it armed, then the durations it left with the    *)
(* registered next step.                                                   *)
BuiltSequence ==
    <<SelectSeq(last.log, IsTimerSet)[1].cmd[2]>> \o Adds(last.log)[1].args[3]

FlashCount == last.args[2]
FlashOnMs == last.args[3]
FlashOffMs == last.args[4]
FlashOnAtRest == last.args[5]

(* C9: for count >= 1 the duration sequence has 2*count - 1 entries,       *)
(* on_ms and off_ms in turn: it starts with on_ms when the line is OFF at  *)
(* rest and with off_ms when the line is ON at rest.                       *)
C9_TimingSequence ==
    (Returned("flash_line_pulses") /\ FlashCount >= 1)
    => /\ Len(BuiltSequence) = 2 * FlashCount - 1
       /\ \A i \in 1 .. Len(BuiltSequence) :
             BuiltSequence[i] =
                IF (i % 2 = 1) = FlashOnAtRest THEN FlashOffMs ELSE FlashOnMs

C9_Witness ==
    /\ Returned("flash_line_pulses")
    /\ FlashCount = 4
    /\ FlashOnAtRest
    /\ FlashOnMs # FlashOffMs
    /\ Len(BuiltSequence) = 7

(* C10: flash_line_pulses returns the sum of its duration sequence, which  *)
(* is count*on_ms + (count-1)*off_ms with the line OFF at rest (1000 for   *)
(* count 4, on_ms 100, off_ms 200), and it returns it from the starting    *)
(* call: no step of the run has been delivered yet.                        *)
C10_TotalDuration ==
    Returned("flash_line_pulses")
    => /\ last.ret = <<sum(BuiltSequence)>>
       /\ ~FlashOnAtRest
          => last.ret[1] = FlashCount * FlashOnMs + (FlashCount - 1) * FlashOffMs
       /\ (FlashCount = 4 /\ FlashOnMs = 100 /\ FlashOffMs = 200 /\ ~FlashOnAtRest)
          => last.ret = <<1000>>
       /\ Calls(last.log) = <<>>
       /\ Len(Adds(last.log)) = 1
       /\ Adds(last.log)[1].ev \in DOMAIN callbacks
       /\ fired[Adds(last.log)[1].id] = 0

C10_Witness ==
    /\ Returned("flash_line_pulses")
    /\ FlashCount = 4 /\ FlashOnMs = 100 /\ FlashOffMs = 200 /\ ~FlashOnAtRest
    /\ last.ret = <<1000>>
    /\ BuiltSequence = <<100, 200, 100, 200, 100, 200, 100>>

-----------------------------------------------------------------------------
(* Vocabulary of a flash run.  Under SpecFlash there is one run: every     *)
(* registration is one of its steps and every entry of toggles is a line   *)
(* state it set.                                                           *)

\* the durations a flash_line_pulses call started with, from its log
SequenceOf(log) ==
    <<SelectSeq(log, IsTimerSet)[1].cmd[2]>> \o Adds(log)[1].args[3]

\* the same call as the last one, but with the line OFF at rest
OffAtRestCall ==
    flash_line_pulses(Begin(0), last.args[1], FlashCount, FlashOnMs, FlashOffMs, FALSE)

RestVal(r) == IF r.on_at_rest THEN VAL_ON ELSE VAL_OFF
SeqLen(r) == 2 * r.count - 1

\* events the run has consumed: steps run by a delivery
StepsRun == sum([i \in 1 .. Len(fired) |-> fired[i]])

\* ids of the registrations now held by the registry
PendingIds ==
    UNION {{callbacks[e][j].id : j \in 1 .. Len(callbacks[e])} : e \in DOMAIN callbacks}

\* no send failed, and every event the run armed has been delivered
RunDone ==
    /\ runs # <<>>
    /\ nfail = 0
    /\ \A i \in 1 .. Len(regs) : fired[i] >= 1

(* C11 as stated: flash_line_pulses(line, 4, 100, 200, on_at_rest=true)    *)
(* starts with the line OFF, ends with the line ON, and has the same total *)
(* duration and the same step count as the call with on_at_rest=false.     *)
C11_SameTotalDuration ==
    /\ (Returned("flash_line_pulses") /\ FlashOnAtRest
        /\ FlashCount = 4 /\ FlashOnMs = 100 /\ FlashOffMs = 200)
       => /\ LineSets(last.log)[1].val = VAL_OFF
          /\ last.ret = OffAtRestCall.ret
          /\ Len(BuiltSequence) = Len(SequenceOf(OffAtRestCall.log))
    /\ (RunDone /\ runs[1].on_at_rest) => toggles[Len(toggles)].val = VAL_ON

(* C11, amended: a flash_line_pulses call with on_at_rest=true starts with *)
(* the line OFF, ends with the line ON and has as many steps as the call   *)
(* with on_at_rest=false, but its total duration is count off-times and    *)
(* count - 1 on-times: off_ms - on_ms more than the other call's; for      *)
(* count 4, on 100, off 200 it is 1100 against 1000.                       *)
C11_OnAtRestRun ==
    /\ (Returned("flash_line_pulses") /\ FlashOnAtRest)
       => /\ LineSets(last.log)[1].val = VAL_OFF
          /\ Len(BuiltSequence) = Len(SequenceOf(OffAtRestCall.log))
          /\ last.ret = <<FlashCount * FlashOffMs + (FlashCount - 1) * FlashOnMs>>
          /\ last.ret[1] - OffAtRestCall.ret[1] = FlashOffMs - FlashOnMs
          /\ (FlashCount = 4 /\ FlashOnMs = 100 /\ FlashOffMs = 200)
             => last.ret = <<1100>> /\ OffAtRestCall.ret = <<1000>>
    /\ (RunDone /\ runs[1].on_at_rest) => toggles[Len(toggles)].val = VAL_ON

C11_Witness ==
    /\ RunDone
    /\ runs[1].on_at_rest /\ runs[1].count = 4
    /\ runs[1].on_ms = 100 /\ runs[1].off_ms = 200
    /\ toggles[1].val = VAL_OFF
    /\ toggles[Len(toggles)].val = VAL_ON

\* changes of the line state from one command of the run to the next
Changes(ts) == Cardinality({i \in 1 .. Len(ts) - 1 : ts[i].val # ts[i + 1].val})

SchedulesNothing(log) ==
    /\ Mints(log) = <<>>
    /\ Adds(log) = <<>>
    /\ SelectSeq(log, IsTimerSet) = <<>>

(* C12: a run started with count = n and driven to its end by delivering   *)
(* each event it armed once has toggled the line exactly 2n - 1 times (7   *)
(* for n = 4, once for a run of length 1), one toggle per delivered event; *)
(* the registry is then empty and the last step scheduled nothing: no      *)
(* name, no timer, no registration.                                        *)
C12_RunToCompletion ==
    RunDone
    => /\ Changes(toggles) = 2 * runs[1].count - 1
       /\ StepsRun = 2 * runs[1].count - 1
       /\ \A i \in 1 .. Len(regs) : fired[i] = 1
       /\ Len(regs) = 2 * runs[1].count - 1
       /\ Len(armed) = Len(regs)
       /\ callbacks = <<>>
       /\ Delivered => SchedulesNothing(last.log)

C12_Witness ==
    /\ RunDone
    /\ runs[1].count = 4 /\ ~runs[1].on_at_rest
    /\ Changes(toggles) = 7
    /\ Calls(last.log) # <<>>
    /\ callbacks = <<>>

\* timers the run armed whose event has not run its step yet
OutstandingTimers == {i \in 1 .. Len(armed) : FiredBefore(i) = 0}

RunUnderWay == runs # <<>> /\ nfail = 0 /\ StepsRun < SeqLen(runs[1])

(* C13: from the start of a run to its last step, the run has exactly one  *)
(* timer armed whose event is still to come and exactly one registration   *)
(* in the registry, the one for that event; at no moment are there two.    *)
C13_OneOutstanding ==
    /\ Cardinality(PendingIds) <= 1
    /\ Cardinality(OutstandingTimers) <= 1
    /\ RunUnderWay
       => /\ PendingIds = {Len(regs)}
          /\ OutstandingTimers = PendingIds
          /\ DOMAIN callbacks = {armed[Len(armed)]}

C13_Witness ==
    /\ RunUnderWay
    /\ runs[1].count = 4
    /\ StepsRun = 3
    /\ PendingIds = {4}
    /\ OutstandingTimers = {4}

\* the state of the run's state machine
RunState == IF PendingIds = {} THEN "AT_REST" ELSE "WAITING_FOR_TOGGLE"

(* C14: a run is a state machine of two states.  It leaves AT_REST for     *)
(* WAITING_FOR_TOGGLE when flash_line_pulses returns, stays there while it *)
(* consumes events, one per delivery of the name it waits for, and is back *)
(* AT_REST after exactly length(sequence) of them; it is never in another  *)
(* state, and once back at rest it consumes no event.                      *)
C14_StateMachine ==
    [][nfail' = 0
       => /\ Cardinality(PendingIds') <= 1
          /\ (RunState = "AT_REST" /\ runs = <<>>)
             => /\ StepsRun' = 0
                /\ RunState' = "WAITING_FOR_TOGGLE"
                   <=> (Step("flash_line_pulses") /\ last'.err = "none")
          /\ RunState = "WAITING_FOR_TOGGLE"
             => /\ StepsRun' = StepsRun + 1
                   <=> (Step("process_backend_event")
                        /\ last'.args[1] \in DOMAIN callbacks)
                /\ StepsRun' \in {StepsRun, StepsRun + 1}
                /\ RunState' = IF StepsRun' = SeqLen(runs'[1]) THEN "AT_REST"
                               ELSE "WAITING_FOR_TOGGLE"
          /\ (RunState = "AT_REST" /\ runs # <<>>)
             => /\ RunState' = "AT_REST"
                /\ StepsRun' = StepsRun
                /\ Calls(last'.log) = <<>>]_vars

C14_Witness ==
    /\ RunState = "AT_REST"
    /\ runs # <<>> /\ nfail = 0
    /\ runs[1].count = 3
    /\ StepsRun = 5
    /\ Delivered /\ Calls(last.log) = <<>>

(* C15: for every count >= 1, the first line state a run sets is the       *)
(* opposite of the rest state, and the last line state a completed run     *)
(* sets is the rest state.                                                 *)
C15_RestToRest ==
    /\ (runs # <<>> /\ toggles # <<>>)
       => /\ toggles[1].val \in {VAL_ON, VAL_OFF}
          /\ toggles[1].val # RestVal(runs[1])
          /\ toggles[1].line = runs[1].line
    /\ RunDone
       => /\ toggles[Len(toggles)].val = RestVal(runs[1])
          /\ toggles[Len(toggles)].line = runs[1].line

C15_Witness ==
    /\ RunDone
    /\ runs[1].count = 1 /\ runs[1].on_at_rest
    /\ Len(toggles) = 2
    /\ toggles[1].val = VAL_OFF
    /\ toggles[2].val = VAL_ON

-----------------------------------------------------------------------------
(* Vocabulary of the registry *)

Held(e) == IF e \in DOMAIN callbacks THEN callbacks[e] ELSE <<>>

\* positions of a call's log at which registration id was invoked
CallsOf(log, id) == {k \in 1 .. Len(log) : log[k].k = "call" /\ log[k].id = id}

(* C16: a registration made under a name is invoked exactly once by the    *)
(* next dispatch of that name, which leaves nothing under the name; a      *)
(* dispatch of a name that holds no registration (a second dispatch with   *)
(* no registration in between) invokes nothing and returns 0.              *)
C16_DispatchOnce ==
    [][Step("process_backend_event")
       => /\ \A j \in 1 .. Len(Held(last'.args[1])) :
                Cardinality(CallsOf(last'.log, Held(last'.args[1])[j].id)) = 1
          /\ last'.args[1] \notin DOMAIN callbacks'
          /\ Held(last'.args[1]) = <<>>
             => /\ Calls(last'.log) = <<>>
                /\ last'.n = 0
                /\ callbacks' = callbacks]_vars

C16_Witness ==
    /\ Delivered
    /\ Calls(last.log) = <<>>
    /\ last.n = 0
    /\ \E i \in 1 .. Len(regs) :
          /\ regs[i].event = DeliveredEvent
          /\ regs[i].callback \in UserCallbacks
          /\ fired[i] = 1

Ids(rs) == [j \in 1 .. Len(rs) |-> rs[j].id]

(* C17: a delivery invokes every registration held under the delivered     *)
(* name, in the order they were registered, removes them all and returns   *)
(* how many it invoked; it runs them all before it returns, so the         *)
(* callbacks of one event have all run before the next event is handled,   *)
(* and it runs and removes no registration of another name.                *)
C17_RegistrationOrder ==
    [][Step("process_backend_event")
       => /\ Ids(Calls(last'.log)) = Ids(Held(last'.args[1]))
          /\ \A j \in 1 .. Len(Held(last'.args[1])) - 1 :
                Held(last'.args[1])[j].id < Held(last'.args[1])[j + 1].id
          /\ last'.args[1] \notin DOMAIN callbacks'
          /\ last'.n = Len(Held(last'.args[1]))
          /\ \A k \in 1 .. Len(Calls(last'.log)) :
                Calls(last'.log)[k].ev = last'.args[1]
          /\ \A x \in DOMAIN callbacks \ {last'.args[1]} :
                x \in DOMAIN callbacks' /\ callbacks'[x] = callbacks[x]]_vars

C17_Witness ==
    /\ Delivered
    /\ Ids(Calls(last.log)) = <<1, 2>>
    /\ last.n = 2
    /\ fired = <<1, 1>>
    /\ callbacks = <<>>

C19_NoEmptyName ==
    /\ \A e \in DOMAIN callbacks : callbacks[e] # <<>>
    /\ DOMAIN callbacks = {regs[i].event : i \in PendingIds}

C19_Witness ==
    /\ Delivered
    /\ Calls(last.log) # <<>>
    /\ DeliveredEvent \notin DOMAIN callbacks
    /\ DOMAIN callbacks # {}
    /\ \A e \in DOMAIN callbacks : callbacks[e] # <<>>

(* C20: a registration stays in the registry, uninvoked and in its place,  *)
(* through every call that is not a delivery of its own event name: a      *)
(* scheduling call (under its name or another), a naming call, a line      *)
(* command, a flash call or step, the delivery of another name.  There is  *)
(* no other call: nothing times a registration out or cancels it.          *)
C20_StaysRegistered ==
    [][\A e \in DOMAIN callbacks :
          ~(Step("process_backend_event") /\ last'.args[1] = e)
          => /\ e \in DOMAIN callbacks'
             /\ Len(callbacks'[e]) >= Len(callbacks[e])
             /\ SubSeq(callbacks'[e], 1, Len(callbacks[e])) = callbacks[e]
             /\ \A j \in 1 .. Len(callbacks[e]) :
                   fired'[callbacks[e][j].id] = fired[callbacks[e][j].id]]_vars

\* a registration made first is still held, uninvoked, after a later
\* registration under another name was made, delivered and invoked
C20_Witness ==
    /\ Delivered
    /\ Calls(last.log) # <<>>
    /\ 1 \in PendingIds
    /\ fired = <<0, 1>>
    /\ regs[1].event # regs[2].event

-----------------------------------------------------------------------------
\* call_after_delay with the channel send as callback, made in place of the
\* send_after_delay call the step made; same delay, message and event
AsCallAfterDelay ==
    call_after_delay(Begin(0), last'.args[1], "_immsend", <<last'.args[2]>>,
                     last'.args[3])

\* a registry with the registrations of name a filed under name b
Renamed(cbs, a, b) ==
    [e \in (DOMAIN cbs \ {a}) \cup {b} |-> IF e = b THEN cbs[a] ELSE cbs[e]]

(* C21 as stated: send_after_delay(delay, message, event) and              *)
(* call_after_delay(delay, send, message, event) issue the same commands,  *)
(* leave the same registry and counter, and mint the same name when event  *)
(* is absent.                                                              *)
C21_SameAsCallAfterDelay ==
    [][Step("send_after_delay")
       => /\ Sends(last'.log) = Sends(AsCallAfterDelay.log)
          /\ callbacks' = AsCallAfterDelay.callbacks
          /\ sysevent_counter' = AsCallAfterDelay.counter
          /\ Mints(last'.log) = Mints(AsCallAfterDelay.log)]_vars

(* C21, amended: with an event name given, send_after_delay and            *)
(* call_after_delay with the channel send as callback issue the same       *)
(* command and leave the same registry and counter.  With no event given   *)
(* both advance the counter by one and arm one timer with the same delay   *)
(* and reload count and make the same registration, but under different    *)
(* names: <prefix><counter>_send_<message without spaces> for              *)
(* send_after_delay, <prefix><counter>_call for call_after_delay.          *)
C21_SameButForMintedName ==
    [][Step("send_after_delay")
       => /\ sysevent_counter' = AsCallAfterDelay.counter
          /\ Len(Sends(last'.log)) = 1 /\ Len(Sends(AsCallAfterDelay.log)) = 1
          /\ last'.args[3] # ""
             => /\ Sends(last'.log) = Sends(AsCallAfterDelay.log)
                /\ callbacks' = AsCallAfterDelay.callbacks
                /\ Mints(last'.log) = <<>> /\ Mints(AsCallAfterDelay.log) = <<>>
          /\ last'.args[3] = ""
             => /\ Len(Mints(last'.log)) = 1
                /\ Mints(last'.log)[1].ev =
                      sysevent_prefix \o ToString(sysevent_counter') \o "_send_"
                         \o RemoveSpaces(last'.args[2])
                /\ Mints(AsCallAfterDelay.log) =
                      <<MintEntry(sysevent_prefix \o ToString(sysevent_counter')
                                     \o "_call")>>
                /\ SubSeq(Sends(last'.log)[1].cmd, 1, 3) =
                      SubSeq(Sends(AsCallAfterDelay.log)[1].cmd, 1, 3)
                /\ Sends(last'.log)[1].cmd[4] = Mints(last'.log)[1].ev
                /\ Sends(AsCallAfterDelay.log)[1].cmd[4] = AsCallAfterDelay.name
                /\ callbacks' = Renamed(AsCallAfterDelay.callbacks,
                                        AsCallAfterDelay.name,
                                        Mints(last'.log)[1].ev)]_vars

C21_Witness ==
    /\ Returned("send_after_delay")
    /\ last.args[3] = ""
    /\ Mints(last.log) = <<MintEntry("sys_2_send_sayhi")>>
    /\ "sys_2_send_sayhi" \in DOMAIN callbacks
    /\ Len(regs) = 2

-----------------------------------------------------------------------------
\* the text s without the characters of the set cs
RECURSIVE Without(_, _)
Without(s, cs) ==
    IF Len(s) = 0 THEN ""
    ELSE (IF SubSeq(s, 1, 1) \in cs THEN "" ELSE SubSeq(s, 1, 1))
            \o Without(SubSeq(s, 2, Len(s)), cs)

\* "_<token1>_<token2>...", each token as text and without the characters cs
RECURSIVE Tagged(_, _)
Tagged(tokens, cs) ==
    IF tokens = <<>> THEN ""
    ELSE "_" \o Without(str(Head(tokens)), cs) \o Tagged(Tail(tokens), cs)

(* C22 as stated: the counter is incremented first and the name is         *)
(* <prefix>_<counter>_<token1>_<token2>..., each token stringified and     *)
(* stripped of whitespace; the first name of a new instance carries 1.     *)
C22_PrefixUnderscoreCounter ==
    [][Step("get_new_sysevent")
       => /\ sysevent_counter' = sysevent_counter + 1
          /\ last'.ret[1] = sysevent_prefix \o "_" \o ToString(sysevent_counter')
                               \o Tagged(last'.args[1], {" ", "\t"})
          /\ startswith(minted'[1], sysevent_prefix \o "_1")]_vars

(* C22, amended: the counter is incremented first and the name is the      *)
(* prefix, as configured and with nothing put after it, then the new       *)
(* counter, then "_" and the token for each token in turn; a token is      *)
(* turned into text and loses its space characters, wherever they are,     *)
(* and only those (a tab stays).  The i-th name an instance mints carries  *)
(* counter i, the first one 1.                                             *)
C22_NameFormat ==
    [][/\ Step("get_new_sysevent")
          => /\ sysevent_counter' = sysevent_counter + 1
             /\ last'.ret[1] = sysevent_prefix \o ToString(sysevent_counter')
                                  \o Tagged(last'.args[1], {" "})
       /\ \A i \in 1 .. Len(minted') :
             startswith(minted'[i], sysevent_prefix \o ToString(i))]_vars

C22_Witness ==
    /\ Returned("get_new_sysevent")
    /\ sysevent_prefix = "my evt"
    /\ last.args[1] = <<Str(" x\ty "), Num(0 - 7), Str("")>>
    /\ last.ret = <<"my evt2_x\ty_-7_">>
    /\ minted[1] = "my evt1_ab_2"

(* C23: a send_after_delay or call_after_delay call that returns has sent  *)
(* one command and no more, TimerSetEvent with the delay given, reload     *)
(* count 0 and an event name: the name given, or the one name the call     *)
(* minted when none was given; and it has added one registration and no    *)
(* more, under that same name, at the end of the name's sequence.          *)
C23_OneTimerOneRegistration ==
    (last.op \in SchedulingOps /\ last.err = "none")
    => /\ Len(Sends(last.log)) = 1
       /\ Len(Adds(last.log)) = 1
       /\ Sends(last.log)[1] =
             SendEntry(<<CMD_TIMER_SET_EVENT, last.args[1], 0, Adds(last.log)[1].ev>>,
                       TRUE)
       /\ IF last.args[3] # ""
          THEN Adds(last.log)[1].ev = last.args[3] /\ Mints(last.log) = <<>>
          ELSE Mints(last.log) = <<MintEntry(Adds(last.log)[1].ev)>>
       /\ Adds(last.log)[1].ev \in DOMAIN callbacks
       /\ LET held == callbacks[Adds(last.log)[1].ev]
          IN held[Len(held)].id = Adds(last.log)[1].id
       /\ Adds(last.log)[1].id = Len(regs)

C23_Witness ==
    /\ Returned("call_after_delay")
    /\ last.args[1] = 50 /\ last.args[3] = "ev"
    /\ Sends(last.log) = <<SendEntry(<<CMD_TIMER_SET_EVENT, 50, 0, "ev">>, TRUE)>>
    /\ Ids(callbacks["ev"]) = <<1, 2>>

LineOps == {"line_on", "line_off", "line_set_state"}

\* the state a line command is to set, from the method and its arguments
AskedVal(op, args) ==
    IF op = "line_on" \/ (op = "line_set_state" /\ args[2]) THEN VAL_ON ELSE VAL_OFF

(* C24: a line_on, line_off or line_set_state call sends one command and   *)
(* no more, LineSetState for its line, with ON for line_on and for         *)
(* on = true and OFF otherwise; it does nothing else: the registry and the *)
(* name counter are as before, no name is minted, no timer armed, no       *)
(* registration made, no callback run.                                     *)
C24_LineCommandOnly ==
    [][last'.op \in LineOps
       => /\ last'.log = <<SendEntry(<<CMD_LINE_SET_STATE, last'.args[1],
                                       AskedVal(last'.op, last'.args)>>, TRUE)>>
          /\ last'.err = "none"
          /\ callbacks' = callbacks
          /\ sysevent_counter' = sysevent_counter
          /\ minted' = minted /\ armed' = armed
          /\ regs' = regs /\ fired' = fired]_vars

C24_Witness ==
    /\ Returned("line_off")
    /\ last.log = <<SendEntry(<<CMD_LINE_SET_STATE, "L1", VAL_OFF>>, TRUE)>>
    /\ DOMAIN callbacks # {}
    /\ sysevent_counter = 2

IssuingOps ==
    {"line_set_state", "timer_set_event", "send_after_delay", "call_after_delay",
     "flash_line_pulses"}

FailedSends(log) == {j \in 1 .. Len(log) : log[j].k = "send" /\ ~log[j].ok}

(* C25: when a send fails inside line_set_state, timer_set_event,          *)
(* send_after_delay, call_after_delay or flash_line_pulses, the call ends  *)
(* there with the error of the send: the failed send is the last thing the *)
(* call did (it is not sent again, and nothing is done after it), the      *)
(* caller gets the error and no result; and a call ends with that error    *)
(* only when a send of its own failed.                                     *)
C25_FailurePropagates ==
    last.op \in IssuingOps
    => /\ FailedSends(last.log) \subseteq {Len(last.log)}
       /\ last.err = "SendFailed" <=> FailedSends(last.log) # {}
       /\ last.err = "SendFailed" => last.ret = <<>>
       /\ last.err = "SendFailed" => Adds(last.log) = <<>>

C25_Witness ==
    /\ last.op = "flash_line_pulses"
    /\ last.err = "SendFailed"
    /\ Len(Sends(last.log)) = 2
    /\ Sends(last.log)[1].ok
    /\ IsTimerSet(Sends(last.log)[2]) /\ ~Sends(last.log)[2].ok
    /\ FailedSends(last.log) = {Len(last.log)}

\* the last delivery ran flash_line_ping_pong with these arguments
SteppedWith == last.log[1].args

LastStep ==
    /\ last.op = "process_backend_event"
    /\ last.log # <<>>
    /\ last.log[1].k = "call"
    /\ last.log[1].cb = "flash_line_ping_pong"

(* C26: flash_line_ping_pong run with an empty remaining sequence sends    *)
(* LineSetState for its line, ON if on_now and OFF if not, and does        *)
(* nothing else: it mints no name, sends no TimerSetEvent, adds no         *)
(* registration.                                                           *)
C26_EmptySequenceSetsLineOnly ==
    (LastStep /\ SteppedWith[3] = <<>>)
    => /\ Len(last.log) = 2
       /\ last.log[2].k = "send"
       /\ last.log[2].cmd = <<CMD_LINE_SET_STATE, SteppedWith[1],
                              IF SteppedWith[2] THEN VAL_ON ELSE VAL_OFF>>
       /\ SchedulesNothing(last.log)
       /\ sysevent_counter = Len(minted)

C26_Witness ==
    /\ LastStep /\ last.err = "none"
    /\ SteppedWith = <<"L1", TRUE, <<>>>>
    /\ runs[1].count = 2
    /\ toggles[Len(toggles)] = [line |-> "L1", val |-> VAL_ON]

\* the k-th duration of run r, and whether the k-th event of r sets the
\* line on: the odd events of a run set the line to its rest state
Dur(r, k) == IF (k % 2 = 1) = r.on_at_rest THEN r.off_ms ELSE r.on_ms
SetsOn(r, k) == (k % 2 = 1) = r.on_at_rest

(* C27: in a flash run in which no send fails, the k-th timer armed        *)
(* carries the k-th duration of the sequence; its event name is the k-th   *)
(* name minted, new among the names minted, and is tagged with the line    *)
(* and with the polarity its delivery sets; the step registered for it     *)
(* holds that polarity and the durations after the k-th, and when it has   *)
(* run the line is in that polarity, the opposite of the one before.  The  *)
(* durations armed over a completed run add up to the value                *)
(* flash_line_pulses returned.                                             *)
C27_KthTimer ==
    (runs # <<>> /\ nfail = 0)
    => /\ Len(delays) = Len(armed) /\ Len(armed) = Len(regs)
       /\ Len(minted) = Len(armed)
       /\ \A k \in 1 .. Len(delays) :
             /\ delays[k] = Dur(runs[1], k)
             /\ armed[k] = minted[k]
             /\ armed[k] = sysevent_prefix \o ToString(k) \o "_" \o runs[1].line
                              \o "_" \o (IF SetsOn(runs[1], k) THEN "on" ELSE "off")
             /\ \A j \in 1 .. k - 1 : minted[j] # minted[k]
             /\ regs[k].event = armed[k]
             /\ regs[k].args[1] = runs[1].line
             /\ regs[k].args[2] = SetsOn(runs[1], k)
             /\ regs[k].args[3] =
                   [m \in 1 .. SeqLen(runs[1]) - k |-> Dur(runs[1], k + m)]
             /\ fired[k] >= 1
                => /\ toggles[k + 1].val = (IF SetsOn(runs[1], k) THEN VAL_ON
                                            ELSE VAL_OFF)
                   /\ toggles[k + 1].val # toggles[k].val
       /\ RunDone => <<sum(delays)>> = runs[1].total

C27_Witness ==
    /\ RunDone
    /\ runs[1].count = 3 /\ runs[1].on_at_rest
    /\ runs[1].on_ms = 30 /\ runs[1].off_ms = 200
    /\ delays = <<200, 30, 200, 30, 200>>
    /\ armed[2] = "sys_2_L1_off"
    /\ runs[1].total = <<660>>

(* C28: a completed run of count n has sent 2n LineSetState commands, all  *)
(* for its line, one at the start and one for each event it consumed, and  *)
(* 2n - 1 TimerSetEvent commands; each LineSetState of a run, completed or *)
(* not, sets the state the one before did not.                             *)
C28_CommandCounts ==
    /\ (runs # <<>> /\ nfail = 0)
       => /\ \A i \in 1 .. Len(toggles) - 1 :
                /\ toggles[i].val # toggles[i + 1].val
                /\ {toggles[i].val, toggles[i + 1].val} = {VAL_ON, VAL_OFF}
          /\ \A i \in 1 .. Len(toggles) : toggles[i].line = runs[1].line
          /\ Len(toggles) = 1 + StepsRun
    /\ RunDone
       => /\ Len(toggles) = 2 * runs[1].count
          /\ Len(armed) = 2 * runs[1].count - 1
          /\ Len(delays) = 2 * runs[1].count - 1

C28_Witness ==
    /\ RunDone
    /\ runs[1].count = 2
    /\ [i \in 1 .. Len(toggles) |-> toggles[i].val] = <<VAL_ON, VAL_OFF, VAL_ON, VAL_OFF>>
    /\ Len(armed) = 3

(* C29: one delivery advances a flash run by one step at most: it runs at  *)
(* most one flash_line_ping_pong call, which sends at most one             *)
(* LineSetState and at most one TimerSetEvent, and the step that call      *)
(* registered has not run when the delivery returns; it runs in a later    *)
(* delivery, of its own event.                                             *)
C29_OneStepPerEvent ==
    [][Step("process_backend_event")
       => /\ Len(Calls(last'.log)) <= 1
          /\ Len(SelectSeq(last'.log, IsLineSet)) <= 1
          /\ Len(SelectSeq(last'.log, IsTimerSet)) <= 1
          /\ Len(Adds(last'.log)) <= 1
          /\ StepsRun' - StepsRun <= 1
          /\ Len(toggles') - Len(toggles) <= 1
          /\ \A j \in 1 .. Len(Adds(last'.log)) :
                /\ fired'[Adds(last'.log)[j].id] = 0
                /\ Adds(last'.log)[j].id \in PendingIds'
                /\ Adds(last'.log)[j].ev # last'.args[1]]_vars

C29_Witness ==
    /\ LastStep /\ last.err = "none"
    /\ Len(SelectSeq(last.log, IsLineSet)) = 1
    /\ Len(SelectSeq(last.log, IsTimerSet)) = 1
    /\ StepsRun = 2
    /\ PendingIds = {3}
    /\ fired = <<1, 1, 0>>

(* C30: when flash_line_pulses returns, which it does for count >= 1, the  *)
(* run has begun and is not over: one LineSetState has been sent, setting  *)
(* the line to the opposite of its rest state; one TimerSetEvent has been  *)
(* sent, with the first duration of the sequence; one registration of the  *)
(* run is pending, for the event of that timer; and no step of the run has *)
(* been run by an event.                                                   *)
C30_ReturnsBeforeCompletion ==
    Returned("flash_line_pulses")
    => /\ FlashCount >= 1
       /\ LineSets(last.log) =
             <<[line |-> last.args[1],
                val |-> IF FlashOnAtRest THEN VAL_OFF ELSE VAL_ON]>>
       /\ Len(Sends(last.log)) = 2
       /\ IsTimerSet(Sends(last.log)[2])
       /\ Sends(last.log)[2].cmd[2] = (IF FlashOnAtRest THEN FlashOffMs ELSE FlashOnMs)
       /\ Sends(last.log)[2].cmd[3] = 0
       /\ Len(Adds(last.log)) = 1
       /\ Adds(last.log)[1].cb = "flash_line_ping_pong"
       /\ Adds(last.log)[1].ev = Sends(last.log)[2].cmd[4]
       /\ Adds(last.log)[1].id \in PendingIds
       /\ fired[Adds(last.log)[1].id] = 0
       /\ Calls(last.log) = <<>>
       /\ Len(Adds(last.log)[1].args[3]) = 2 * FlashCount - 2

C30_Witness ==
    /\ Returned("flash_line_pulses")
    /\ FlashCount = 1 /\ ~FlashOnAtRest /\ FlashOnMs = 30
    /\ toggles = <<[line |-> "L1", val |-> VAL_ON]>>
    /\ delays = <<30>>
    /\ PendingIds = {1}
    /\ ~RunDone

-----------------------------------------------------------------------------
\* positions of the log at which a flash_line_ping_pong call began: the
\* start of a flash_line_pulses call, and each invocation by a delivery
FlashStepStarts(op, log) ==
    (IF op = "flash_line_pulses" /\ log # <<>> THEN {0} ELSE {})
    \cup {j \in 1 .. Len(log) :
            log[j].k = "call" /\ log[j].cb = "flash_line_ping_pong"}

(* C31: within a call the commands and the registration come in a fixed    *)
(* order.  A registration is added right after the TimerSetEvent for its   *)
(* event name was sent, and only if that send succeeded, so the            *)
(* registration of a scheduling call does not exist yet when its arming    *)
(* send is attempted; and a flash step sends its LineSetState first, its   *)
(* TimerSetEvent after it.                                                 *)
C31_OrderWithinStep ==
    /\ \A j \in 1 .. Len(last.log) :
          last.log[j].k = "add"
          => /\ j > 1
             /\ IsTimerSet(last.log[j - 1]) /\ last.log[j - 1].ok
             /\ last.log[j - 1].cmd[4] = last.log[j].ev
    /\ \A j \in 1 .. Len(last.log) :
          IsTimerSet(last.log[j])
          => \A i \in j + 1 .. Len(last.log) :
                last.log[i].k = "add" => i = j + 1
    /\ last.op \in SchedulingOps
       => \A j \in 1 .. Len(last.log) :
             IsTimerSet(last.log[j]) => Adds(SubSeq(last.log, 1, j)) = <<>>
    /\ \A s \in FlashStepStarts(last.op, last.log) :
          /\ s < Len(last.log) /\ IsLineSet(last.log[s + 1])
          /\ \A j \in s + 1 .. Len(last.log) :
                IsTimerSet(last.log[j]) => j > s + 1

C31_Witness ==
    /\ LastStep /\ last.err = "none"
    /\ Len(last.log) = 5
    /\ IsLineSet(last.log[2])
    /\ last.log[3].k = "mint"
    /\ IsTimerSet(last.log[4])
    /\ last.log[5].k = "add"

\* the last call was a flash step whose LineSetState went out and whose
\* TimerSetEvent failed
FailedArm ==
    /\ last.err = "SendFailed"
    /\ FlashStepStarts(last.op, last.log) # {}
    /\ IsTimerSet(last.log[Len(last.log)])
    /\ LineSets(last.log) # <<>>

(* C32, the part the sources decide: when the TimerSetEvent of a flash     *)
(* step fails after its LineSetState went out, the step registers no       *)
(* successor and the line is left in the state the step set.  If the step  *)
(* is the one flash_line_pulses runs, that state is the opposite of the    *)
(* rest state, no registration of the run exists, and no later delivery    *)
(* sets the line.  If the step was run by a delivery, the registry holds   *)
(* at most that step's own registration: whether it does is the callback   *)
(* handler's doing.                                                        *)
C32_FailedArmStopsRun ==
    [][/\ FailedArm'
          => /\ Adds(last'.log) = <<>>
             /\ toggles'[Len(toggles')] = LineSets(last'.log)[1]
             /\ PendingIds' \subseteq PendingIds
             /\ Step("flash_line_pulses")
                => /\ PendingIds' = {}
                   /\ toggles' = <<[line |-> last'.args[1],
                                    val |-> IF last'.args[5] THEN VAL_OFF
                                            ELSE VAL_ON]>>
       /\ (runs # <<>> /\ PendingIds = {})
          => /\ toggles' = toggles
             /\ PendingIds' = {}]_vars

C32_Witness ==
    /\ runs # <<>>
    /\ runs[1].total = <<>>
    /\ ~runs[1].on_at_rest
    /\ toggles = <<[line |-> "L1", val |-> VAL_ON]>>
    /\ PendingIds = {}
    /\ Delivered

\* how many timers were armed for the event name
ArmedFor(e) == Cardinality({i \in 1 .. Len(armed) : armed[i] = e})

\* what the registry holds under the name after the step
HeldNext(e) == IF e \in DOMAIN callbacks' THEN callbacks'[e] ELSE <<>>

(* C33: two scheduling calls given the same explicit event name leave both *)
(* registrations under that name, in the order of the calls, and send one  *)
(* TimerSetEvent each; the first delivery of the name invokes both         *)
(* callbacks in registration order, and a second delivery invokes none and *)
(* returns false when the name lacks the system prefix.                    *)
C33_SharedEventName ==
    [][/\ (last'.op \in SchedulingOps /\ last'.args[3] # "")
          => /\ Ids(HeldNext(last'.args[3])) = Ids(Held(last'.args[3])) \o <<Len(regs')>>
             /\ Len(regs') = Len(regs) + 1
             /\ armed' = Append(armed, last'.args[3])
             /\ Len(SelectSeq(last'.log, IsTimerSet)) = 1
       /\ \A e \in DOMAIN callbacks :
             /\ ArmedFor(e) = Cardinality({i \in 1 .. Len(regs) : regs[i].event = e})
             /\ ArmedFor(e) >= Len(Held(e))
       /\ (Step("process_backend_event") /\ Len(Held(last'.args[1])) = 2)
          => /\ Ids(Calls(last'.log)) = Ids(Held(last'.args[1]))
             /\ Held(last'.args[1])[1].id < Held(last'.args[1])[2].id
             /\ last'.n = 2
             /\ HeldNext(last'.args[1]) = <<>>
       /\ (Step("process_backend_event") /\ Delivered
           /\ last'.args[1] = DeliveredEvent /\ ~CarriesPrefix(DeliveredEvent))
          => /\ Calls(last'.log) = <<>>
             /\ last'.ret = <<FALSE>>]_vars

C33_Witness ==
    /\ Delivered
    /\ DeliveredEvent = "ev"
    /\ last.ret = <<FALSE>>
    /\ armed = <<"ev", "ev">>
    /\ Len(regs) = 2
    /\ regs[1].event = "ev" /\ regs[2].event = "ev"
    /\ fired = <<1, 1>>

-----------------------------------------------------------------------------
(* Vocabulary of several runs *)

\* the flash steps of run r, in the order they ran
StepsOfRun(r) == SelectSeq(steps, LAMBDA x : x.run = r)

\* the registrations of run r that the registry holds
PendingOfRun(r) == {id \in PendingIds : RunOf(id) = r}

\* the polarity of the k-th step of a run
ValOfStep(r, k) == IF (k % 2 = 1) = r.on_at_rest THEN VAL_OFF ELSE VAL_ON

RunFinished(r) == Len(StepsOfRun(r)) = SeqLen(runs[r]) + 1

FlashRegsOf(e) ==
    {i \in 1 .. Len(regs) :
        regs[i].event = e /\ regs[i].callback = "flash_line_ping_pong"}

(* C35: delivering an event name of a flash run again, after the delivery  *)
(* that ran its step, or delivering it when the run is over, does not      *)
(* advance the run: the delivery sends no command, invokes nothing, adds   *)
(* no registration, mints no name, and process_backend_event returns true  *)
(* (no send having failed in the run).                                     *)
C35_RedeliveryDoesNothing ==
    [][(/\ Step("process_backend_event")
        /\ nfail = 0
        /\ FlashRegsOf(last'.args[1]) # {}
        /\ \A i \in FlashRegsOf(last'.args[1]) : fired[i] >= 1)
       => /\ last'.log = <<>>
          /\ last'.err = "none"
          /\ last'.ret = <<TRUE>>
          /\ callbacks' = callbacks
          /\ sysevent_counter' = sysevent_counter
          /\ toggles' = toggles
          /\ steps' = steps
          /\ regs' = regs
          /\ fired' = fired]_vars

\* the first event of a finished run of two pulses, delivered again
C35_Witness ==
    /\ Delivered
    /\ RunDone
    /\ runs[1].count = 2
    /\ Len(regs) = 3
    /\ DeliveredEvent = regs[1].event
    /\ last.log = <<>>
    /\ last.ret = <<TRUE>>

\* the run has made its last step, the line is as it was at rest and the
\* registry holds nothing of the run
RunOverAtRest ==
    /\ runs # <<>>
    /\ RunFinished(1)
    /\ toggles[Len(toggles)] = [line |-> runs[1].line, val |-> RestVal(runs[1])]
    /\ PendingIds = {}

(* C36: when the event of every armed timer is eventually delivered and no *)
(* send fails, a flash run that was started (count >= 1) eventually makes  *)
(* its last step, and from then on the line is in its rest state and the   *)
(* run holds no registration.                                              *)
C36_RunTerminates == (runs # <<>>) ~> [] RunOverAtRest

C36_Witness ==
    /\ RunOverAtRest
    /\ runs[1].count = MaxPulses
    /\ Len(steps) = 2 * MaxPulses

(* C37: on an instance configured with the empty system-event prefix,      *)
(* process_backend_event returns true for every event name, registered or  *)
(* not, so that no event is left for the task layer; on an instance with a *)
(* non-empty prefix, the delivery of a name that lacks the prefix and      *)
(* holds no registration returns false.                                    *)
C37_EmptyPrefixClaimsAll ==
    Delivered
    => /\ sysevent_prefix = "" => last.ret = <<TRUE>>
       /\ (sysevent_prefix # "" /\ ~CarriesPrefix(DeliveredEvent) /\ last.n = 0)
          => last.ret = <<FALSE>>

\* with the empty prefix, a name of the task's own that holds no
\* registration is answered true
C37_Witness ==
    /\ Delivered
    /\ sysevent_prefix = ""
    /\ DeliveredEvent = "task"
    /\ last.n = 0
    /\ last.ret = <<TRUE>>

\* flash steps of the call that sent their line command with durations left
\* to wait for: the steps that go on to arm a timer
NonTerminalSteps(op, log) ==
    {s \in FlashStepStarts(op, log) :
        /\ s < Len(log) /\ IsLineSet(log[s + 1]) /\ log[s + 1].ok
        /\ IF s = 0 THEN TRUE ELSE log[s].args[3] # <<>>}

\* steps of run r that registered a next step
ArmingSteps(r) == {k \in 1 .. Len(steps) : steps[k].run = r /\ steps[k].next # 0}

(* C38: the counter moves only when a name is minted.  A scheduling call   *)
(* given a non-empty event name mints nothing and leaves the counter as it *)
(* was; a flash step that is not the last of its run mints exactly one     *)
(* name, the last step none; so a run of count n that has made all its     *)
(* steps has advanced the counter by 2n-1.                                 *)
C38_CounterFrame ==
    [][/\ sysevent_counter' = sysevent_counter + Len(Mints(last'.log))
       /\ (last'.op \in SchedulingOps /\ last'.args[3] # "")
          => /\ Mints(last'.log) = <<>>
             /\ sysevent_counter' = sysevent_counter
       /\ last'.op \in {"flash_line_pulses", "process_backend_event"}
          => Len(Mints(last'.log)) = Cardinality(NonTerminalSteps(last'.op, last'.log))
       /\ \A s \in FlashStepStarts(last'.op, last'.log) :
             (s > 0 /\ last'.log[s].args[3] = <<>>)
             => \A j \in s .. Len(last'.log) : last'.log[j].k # "mint"
       /\ \A r \in 1 .. Len(runs') :
             (Len(StepsOfRun(r)') = SeqLen(runs'[r]) + 1 /\ nfail' = 0)
             => /\ Cardinality(ArmingSteps(r)') = 2 * runs'[r].count - 1
                /\ sysevent_counter' =
                      Cardinality(UNION {ArmingSteps(q)' : q \in 1 .. Len(runs')})
                      + Cardinality({i \in 1 .. Len(regs') :
                                        /\ regs'[i].callback # "flash_line_ping_pong"
                                        /\ \E j \in 1 .. Len(minted') :
                                              minted'[j] = regs'[i].event})]_vars

\* a finished run of one pulse and a call scheduled under a name of the
\* caller's: the counter stands at 2*1-1
C38_Witness ==
    /\ Len(runs) = 1
    /\ runs[1].count = 1
    /\ RunFinished(1)
    /\ nfail = 0
    /\ \E i \in 1 .. Len(regs) : regs[i].event = "ev"
    /\ sysevent_counter = 1

====
